---------------------------- MODULE Spec2Model ----------------------------
(***************************************************************************)
(* Model of Secondary_Research/base_model_tuning_and_testing.js: the Earth *)
(* Engine script that prepares labelled points, builds a Landsat 8 quality *)
(* mosaic with sixteen predictor bands, splits and samples the points,     *)
(* sweeps the number of trees of a random forest, and trains and applies   *)
(* the final classifier.                                                   *)
(*                                                                         *)
(* Every server-side object of the script is a variable that holds its     *)
(* default value until the stage that computes it has run; `stage' is the  *)
(* set of stages that have run.  A stage is enabled by the data it reads.  *)
(***************************************************************************)
EXTENDS Integers, Sequences, FiniteSets, TLC

VARIABLES
    table,                \* the label asset (line 2)
    scenes,               \* the catalog LANDSAT/LC08/C02/T1_L2 (line 72)
    seedKeys,             \* the pseudo-random column the engine draws (line 104)
    points,               \* line 23
    finalPoints,          \* lines 43 and 104
    mosaic,               \* line 72
    predictorImage,       \* line 98
    trainingSet,          \* line 105
    testingSet,           \* line 106
    trainingData,         \* line 108
    testingData,          \* line 109
    results,              \* line 117
    bestNumberOfTrees,    \* line 140
    finalClassifier,      \* line 146
    finalClassifiedImage, \* line 153
    trainCalls,           \* history: every (trees, features) handed to train()
    error,                \* the evaluation error the engine raised, or "none"
    stage                 \* the stages that have run

vars == << table, scenes, seedKeys, points, finalPoints, mosaic, predictorImage,
           trainingSet, testingSet, trainingData, testingData, results,
           bestNumberOfTrees, finalClassifier, finalClassifiedImage,
           trainCalls, error, stage >>

-----------------------------------------------------------------------------
(* Bounds of the model *)

MaxRows == 3          \* rows of the label table
MaxScenes == 2        \* scenes of the catalog
MaxCandidates == 3    \* entries of numTreesList that are swept

-----------------------------------------------------------------------------
(* 1. CONFIGURATION (lines 7-17) *)

year == 2018
month == 12

pathRowList ==
    << <<133, 40>>, <<133, 41>>, <<134, 40>>, <<134, 41>>, <<134, 42>>,
       <<135, 39>>, <<135, 40>>, <<135, 41>>, <<135, 42>>,
       <<136, 40>>, <<136, 41>>, <<136, 42>>, <<137, 41>> >>

\* The configured list, cut to its first MaxCandidates entries.
numTreesList == SubSeq(<<50, 100, 150, 200, 250, 300>>, 1, MaxCandidates)

Range(s) == { s[i] : i \in DOMAIN s }

-----------------------------------------------------------------------------
(* 2. PREPARE LABELED POINTS (lines 23-43) *)

FlagNames == << "Forest", "Tree Based AG", "Wet Paddy", "Grassland", "Urban",
                "Shifting Cultivation", "Non-Tree based agriculture", "Other" >>

Null == "null"

\* ee.Number.parse: the number a coordinate string denotes.
NumberParse(s) ==
    CASE s = "91.5" -> 915
      [] s = "92.5" -> 925
      [] s = "25.5" -> 255

\* The pixels of the area of interest, as (lon, lat) in tenths of a degree.
Pixels == { <<915, 255>>, <<925, 255>> }

\* ee.Filter.notNull(['lon', 'lat'])
notNullLonLat(feature) == feature.lon # Null /\ feature.lat # Null

classNumber_firstFlagIgnored(feature) ==
    IF feature.flags["Tree Based AG"] = 1 THEN 1
    ELSE IF feature.flags["Wet Paddy"] = 1 THEN 2
    ELSE IF feature.flags["Grassland"] = 1 THEN 3
    ELSE IF feature.flags["Urban"] = 1 THEN 4
    ELSE IF feature.flags["Shifting Cultivation"] = 1 THEN 5
    ELSE IF feature.flags["Non-Tree based agriculture"] = 1 THEN 6
    ELSE IF feature.flags["Forest"] = 1 THEN 0
    ELSE IF feature.flags["Other"] = 1 THEN 7
    ELSE 99

\* The nested ee.Algorithms.If of lines 29-37.
classNumber(feature) ==
    IF feature.flags["Forest"] = 1 THEN 0
    ELSE IF feature.flags["Tree Based AG"] = 1 THEN 1
    ELSE IF feature.flags["Wet Paddy"] = 1 THEN 2
    ELSE IF feature.flags["Grassland"] = 1 THEN 3
    ELSE IF feature.flags["Urban"] = 1 THEN 4
    ELSE IF feature.flags["Shifting Cultivation"] = 1 THEN 5
    ELSE IF feature.flags["Non-Tree based agriculture"] = 1 THEN 6
    ELSE IF feature.flags["Other"] = 1 THEN 7
    ELSE 99

\* The function mapped over the table (lines 24-41): the geometry is the point
\* (lon, lat) and target_class the resolved class.
labelFeature(feature) ==
    [ id           |-> feature.id,
      flags        |-> feature.flags,
      geometry     |-> << NumberParse(feature.lon), NumberParse(feature.lat) >>,
      target_class |-> classNumber(feature) ]

MapSeq(f(_), s) == [ i \in DOMAIN s |-> f(s[i]) ]

\* var points = table.filter(notNull).map(...)   (line 23)
pointsOf(t) == MapSeq(labelFeature, SelectSeq(t, notNullLonLat))

below99_lte(feature) == feature.target_class <= 99

\* ee.Filter.lt('target_class', 99)   (line 43)
below99(feature) == feature.target_class < 99

finalPointsOf(pts) == SelectSeq(pts, below99)

-----------------------------------------------------------------------------
(* 3. CREATE THE PREDICTOR IMAGE (lines 50-98) *)

\* A band value at a pixel: masked (unset), or the rational num/den.
Masked == [ set |-> FALSE, num |-> 0, den |-> 1 ]
Val(n, d) == [ set |-> TRUE, num |-> n, den |-> d ]

SRBands == { "SR_B2", "SR_B3", "SR_B4", "SR_B5", "SR_B6", "SR_B7" }

RECURSIVE bitwiseAnd(_, _)
bitwiseAnd(a, b) ==
    IF a = 0 \/ b = 0 THEN 0
    ELSE (a % 2) * (b % 2) + 2 * bitwiseAnd(a \div 2, b \div 2)

\* (1 << 1) | (1 << 3) | (1 << 4)   (line 52)
cloudMask == 2 + 8 + 16

\* qa.bitwiseAnd(cloudMask).eq(0)   (line 53)
qaClear(qa) == bitwiseAnd(qa, cloudMask) = 0

\* image.select('SR_B.*').multiply(0.0000275).add(-0.2)   (line 54), in units
\* of 1/400000: DN * 0.0000275 - 0.2 = (11 * DN - 80000) / 400000.  The band
\* keeps the mask of the image it is computed from, the scene as acquired.
opticalBand(cell, b) ==
    IF cell.data THEN Val(11 * cell.SR[b] - 80000, 400000) ELSE Masked

\* What image.updateMask(mask) leaves of a band of the scene.
updateMaskBand(cell, v) ==
    IF cell.data /\ qaClear(cell.QA_PIXEL) THEN v ELSE Masked

\* maskL8sr at one pixel (lines 50-58): updateMask(mask) masks every band of
\* the scene, and addBands(opticalBands, null, true) then replaces the SR_B
\* bands by the rescaled bands of the unmasked scene.
maskL8srPixel(cell) ==
    [ b \in SRBands \cup {"QA_PIXEL"} |->
        IF b \in SRBands
        THEN opticalBand(cell, b)
        ELSE updateMaskBand(cell, Val(cell.QA_PIXEL, 1)) ]

maskL8sr(image) ==
    [ CLOUD_COVER |-> image.CLOUD_COVER,
      px          |-> [ p \in Pixels |-> maskL8srPixel(image.px[p]) ] ]

\* addQualityBand (lines 60-65): a constant band, set at every pixel.
addQualityBand(image) ==
    [ CLOUD_COVER |-> image.CLOUD_COVER,
      px          |-> [ p \in Pixels |->
                          [ b \in DOMAIN image.px[p] \cup {"quality_score"} |->
                              IF b = "quality_score"
                              THEN Val(100 - image.CLOUD_COVER, 1)
                              ELSE image.px[p][b] ] ] ]

\* pathRowFilters (lines 67-68)
pathRowFilters(scene) ==
    \E i \in DOMAIN pathRowList :
        scene.WRS_PATH = pathRowList[i][1] /\ scene.WRS_ROW = pathRowList[i][2]

\* Dates are <<year, month, day>>.
DateLT(a, b) ==
    \/ a[1] < b[1]
    \/ a[1] = b[1] /\ a[2] < b[2]
    \/ a[1] = b[1] /\ a[2] = b[2] /\ a[3] < b[3]

startDate == << year, month, 1 >>
endDate == IF month = 12 THEN << year + 1, 1, 1 >> ELSE << year, month + 1, 1 >>

\* filterDate(startDate, endDate): start inclusive, end exclusive (line 74)
filterDate(scene) == ~ DateLT(scene.date, startDate) /\ DateLT(scene.date, endDate)

sceneSelected(scene) == pathRowFilters(scene) /\ filterDate(scene)

\* The collection handed to qualityMosaic (lines 72-76).
preparedCollection(catalog) ==
    MapSeq(addQualityBand, MapSeq(maskL8sr, SelectSeq(catalog, sceneSelected)))

\* The image of the collection qualityMosaic draws pixel p from: the first one
\* with the greatest quality_score among those whose quality band is set at p.
\* 0 when there is none.
bestIndex(coll, p) ==
    LET cand == { i \in DOMAIN coll : coll[i].px[p]["quality_score"].set }
        q(i) == coll[i].px[p]["quality_score"].num
    IN  IF cand = {} THEN 0
        ELSE CHOOSE i \in cand :
                 \A j \in cand : q(j) < q(i) \/ (q(j) = q(i) /\ i <= j)

AllBands == SRBands \cup { "QA_PIXEL", "quality_score" }

\* qualityMosaic('quality_score') (line 77): the quality band orders the
\* images at a pixel; every band of the pixel comes from the image bestIndex
\* names, with that band's own mask.
qualityMosaic(coll) ==
    [ p \in Pixels |->
        [ b \in AllBands |->
            IF bestIndex(coll, p) = 0 THEN Masked
            ELSE coll[bestIndex(coll, p)].px[p][b] ] ]

\* landsatBands (line 79) and mosaic.select(currentNames, newNames) (line 82)
landsatBands ==
    [ blue |-> "SR_B2", green |-> "SR_B3", red |-> "SR_B4",
      nir |-> "SR_B5", swir1 |-> "SR_B6", swir2 |-> "SR_B7" ]

mosaicRenamedPixel(mpx) == [ k \in DOMAIN landsatBands |-> mpx[landsatBands[k]] ]

\* Band values of the renamed mosaic are in units of 1/400000 (den = 400000);
\* the index formulas below are written over the numerators.
\* a / b as Image.expression evaluates it: masked where an operand is masked,
\* and 0 where b is 0 (Image.divide returns 0 for a division by 0).
Ratio(ok, n, d) ==
    IF ~ ok THEN Masked
    ELSE IF d = 0 THEN Val(0, 1)
    ELSE Val(n, d)

\* image.normalizedDifference([a, b]): (a - b) / (a + b), masked where a band
\* is masked or negative.  A sum of 0 needs both reflectances to be 0, which no
\* digital number gives (11 * DN = 80000 has no solution).
normalizedDifference(a, b) ==
    IF ~ (a.set /\ b.set) \/ a.num < 0 \/ b.num < 0 THEN Masked
    ELSE IF a.num + b.num = 0 THEN Masked
    ELSE Val(a.num - b.num, a.num + b.num)

getNDVI(m) == normalizedDifference(m.nir, m.red)            \* line 84
getNDWI(m) == normalizedDifference(m.nir, m.swir1)          \* line 85

\* 1.5 * (nir - red) / (0.5 + nir + red)   (line 86)
getSAVI(m) ==
    Ratio(m.nir.set /\ m.red.set,
          3 * (m.nir.num - m.red.num), 2 * (200000 + m.nir.num + m.red.num))

\* (blue - green) / (blue + green)   (line 87)
getPRI(m) ==
    Ratio(m.blue.set /\ m.green.set,
          m.blue.num - m.green.num, m.blue.num + m.green.num)

\* swir2 / swir1   (line 88)
getCAI(m) == Ratio(m.swir2.set /\ m.swir1.set, m.swir2.num, m.swir1.num)

\* The denominator of EVI, nir + 6 * red - 7.5 * blue + 1, times 2.
eviDenominator(m) ==
    2 * m.nir.num + 12 * m.red.num - 15 * m.blue.num + 800000

\* 2.5 * ((nir - red) / (nir + 6 * red - 7.5 * blue + 1))   (line 89)
getEVI(m) ==
    Ratio(m.nir.set /\ m.red.set /\ m.blue.set,
          5 * (m.nir.num - m.red.num), eviDenominator(m))

\* 2.5 * (nir - red) / (nir + (2.4 * red) + 1)   (line 90)
getEVI2(m) ==
    Ratio(m.nir.set /\ m.red.set,
          25 * (m.nir.num - m.red.num),
          10 * m.nir.num + 24 * m.red.num + 4000000)

\* (-red * 0.017) - (nir * 0.007) - (swir2 * 0.079) + 5.22   (line 91)
getHallCover(m) ==
    IF ~ (m.red.set /\ m.nir.set /\ m.swir2.set) THEN Masked
    ELSE Val(2088000000 - 17 * m.red.num - 7 * m.nir.num - 79 * m.swir2.num,
             400000000)

\* (-red * 0.039) - (nir * 0.011) - (swir1 * 0.026) + 4.13   (line 92)
getHallHeigth(m) ==
    IF ~ (m.red.set /\ m.nir.set /\ m.swir1.set) THEN Masked
    ELSE Val(1652000000 - 39 * m.red.num - 11 * m.nir.num - 26 * m.swir1.num,
             400000000)

\* nir / green - 1   (line 93)
getGCVI(m) ==
    IF ~ (m.nir.set /\ m.green.set) THEN Masked
    ELSE IF m.green.num = 0 THEN Val(-1, 1)
    ELSE Val(m.nir.num - m.green.num, m.green.num)

\* allPredictors (line 97)
allPredictors ==
    << "blue", "green", "red", "nir", "swir1", "swir2", "ndvi", "ndwi", "savi",
       "pri", "cai", "evi", "evi2", "hallcover", "hallheigth", "gcvi" >>

\* mosaicWithIndices.select(allPredictors) at one pixel (lines 95-98)
predictorPixel(mpx) ==
    LET m == mosaicRenamedPixel(mpx)
    IN  [ b \in Range(allPredictors) |->
            CASE b = "ndvi"       -> getNDVI(m)
              [] b = "ndwi"       -> getNDWI(m)
              [] b = "savi"       -> getSAVI(m)
              [] b = "pri"        -> getPRI(m)
              [] b = "cai"        -> getCAI(m)
              [] b = "evi"        -> getEVI(m)
              [] b = "evi2"       -> getEVI2(m)
              [] b = "hallcover"  -> getHallCover(m)
              [] b = "hallheigth" -> getHallHeigth(m)
              [] b = "gcvi"       -> getGCVI(m)
              [] OTHER            -> m[b] ]

predictorImageOf(mos) == [ p \in Pixels |-> predictorPixel(mos[p]) ]

\* A pixel all of whose predictor bands are set.
fullySet(img, p) == \A b \in DOMAIN img[p] : img[p][b].set

-----------------------------------------------------------------------------
(* 4. PREPARE TRAINING & TESTING DATA (lines 104-109) *)

\* The split threshold 0.8 of lines 105-106, in tenths.
splitThreshold == 8

\* finalPoints.randomColumn('random'): the key the engine draws for the row.
randomColumn(pts, keys) ==
    [ i \in DOMAIN pts |->
        [ id           |-> pts[i].id,
          flags        |-> pts[i].flags,
          geometry     |-> pts[i].geometry,
          target_class |-> pts[i].target_class,
          random       |-> keys[pts[i].id] ] ]

inTraining_lt(feature) == feature.random < splitThreshold

\* ee.Filter.lte('random', 0.8)   (line 105)
inTraining(feature) == feature.random <= splitThreshold

\* ee.Filter.gt('random', 0.8)   (line 106)
inTesting(feature) == feature.random > splitThreshold

sampleOne(img, feature) ==
    [ id           |-> feature.id,
      pixel        |-> feature.geometry,
      bands        |-> img[feature.geometry],
      target_class |-> feature.target_class ]

\* sampleRegions drops a point whose pixel has a masked band.
sampled(img, feature) ==
    feature.geometry \in Pixels /\ fullySet(img, feature.geometry)

\* predictorImage.sampleRegions({collection, properties: ['target_class'],
\* scale: 30})   (lines 108-109): one feature per point of the collection that
\* lies on a pixel with every band set, with the bands and target_class.
sampleRegions(img, collection) ==
    { sampleOne(img, collection[i]) :
        i \in { j \in DOMAIN collection : sampled(img, collection[j]) } }

-----------------------------------------------------------------------------
(* 5. HYPERPARAMETER TUNING LOOP (lines 117-133) *)

Candidates == DOMAIN numTreesList

\* The classes a forest trained on `features' can predict.
classesOf(features) == { e.target_class : e \in features }

\* A forest trained on `features' predicts, for the bands of a pixel, one of
\* the classes of its training examples; which one is the engine's business.
Votes(features) == [ Pixels -> classesOf(features) ]

\* testingData.classify(classifier).errorMatrix('target_class',
\* 'classification'): the diagonal and the total of the matrix (lines 124-126).
errorMatrix(vote, features) ==
    [ correct |-> Cardinality({ e \in features : vote[e.pixel] = e.target_class }),
      total   |-> Cardinality(features) ]

\* a.accuracy() > b.accuracy(), accuracy being correct / total.
AccGT(a, b) == a.correct * b.total > b.correct * a.total

pending == [ done |-> FALSE, entry |-> 0, trees |-> 0, correct |-> 0, total |-> 0 ]

slotOf_completionOrder(i) ==
    Cardinality({ j \in Candidates : results[j].done }) + 1

\* Array.prototype.map puts the value computed for entry i at index i.
slotOf(i) == i

\* features: trainingData   (line 119)
sweepFeatures == trainingData

-----------------------------------------------------------------------------
(* 6. TRAIN FINAL MODEL (lines 139-153) *)

\* The place of results[i] after resultsFC.sort('accuracy', false): descending
\* by accuracy, equal accuracies in the order of the collection.
sortedPlace(fc, i) ==
    1 + Cardinality({ j \in DOMAIN fc :
                        AccGT(fc[j], fc[i]) \/ (~ AccGT(fc[i], fc[j]) /\ j < i) })

sortDescending(fc) ==
    [ k \in DOMAIN fc |-> fc[CHOOSE i \in DOMAIN fc : sortedPlace(fc, i) = k] ]

bestOf_lastOfSort(fc) == sortDescending(fc)[Len(fc)].trees

\* resultsFC.sort('accuracy', false).first().get('trees')   (line 140)
bestOf(fc) == sortDescending(fc)[1].trees

finalFeatures_withTest == trainingData \cup testingData

\* features: trainingData   (line 147)
finalFeatures == trainingData

\* ee.Classifier.smileRandomForest(bestNumberOfTrees)   (line 146)
finalTrees == bestNumberOfTrees

\* predictorImage.classify(finalClassifier) at one pixel (line 153): masked
\* where a band of the pixel is masked.
classifyPixel(img, classifier, p) ==
    IF fullySet(img, p) THEN Val(classifier.vote[p], 1) ELSE Masked

-----------------------------------------------------------------------------
(* The stages *)

NoImage == [ p \in Pixels |-> << >> ]
NoClassifier == [ trees |-> 0, features |-> {}, vote |-> << >> ]

\* Lines 23-43.
PrepareLabels ==
    /\ "labels" \notin stage
    /\ points' = pointsOf(table)
    /\ finalPoints' = finalPointsOf(points')
    /\ stage' = stage \cup {"labels"}
    /\ UNCHANGED << table, scenes, seedKeys, mosaic, predictorImage, trainingSet,
                    testingSet, trainingData, testingData, results,
                    bestNumberOfTrees, finalClassifier, finalClassifiedImage,
                    trainCalls, error >>

\* Lines 72-77.  The mosaic of an empty collection is an image without bands.
BuildMosaic ==
    /\ "mosaic" \notin stage
    /\ LET coll == preparedCollection(scenes)
       IN  mosaic' = IF coll = << >> THEN NoImage ELSE qualityMosaic(coll)
    /\ stage' = stage \cup {"mosaic"}
    /\ UNCHANGED << table, scenes, seedKeys, points, finalPoints, predictorImage,
                    trainingSet, testingSet, trainingData, testingData, results,
                    bestNumberOfTrees, finalClassifier, finalClassifiedImage,
                    trainCalls, error >>

\* Lines 79-98.  select(currentNames, newNames) fails on an image that lacks
\* the bands, and so does everything computed from it.
BuildPredictors ==
    /\ "mosaic" \in stage
    /\ "predictors" \notin stage
    /\ error = "none"
    /\ IF \A p \in Pixels : SRBands \subseteq DOMAIN mosaic[p]
       THEN /\ predictorImage' = predictorImageOf(mosaic)
            /\ stage' = stage \cup {"predictors"}
            /\ error' = error
       ELSE /\ error' = "Image.select: no band matches"
            /\ UNCHANGED << predictorImage, stage >>
    /\ UNCHANGED << table, scenes, seedKeys, points, finalPoints, mosaic,
                    trainingSet, testingSet, trainingData, testingData, results,
                    bestNumberOfTrees, finalClassifier, finalClassifiedImage,
                    trainCalls >>

\* Lines 104-106.
Split ==
    /\ "labels" \in stage
    /\ "split" \notin stage
    /\ finalPoints' = randomColumn(finalPoints, seedKeys)
    /\ trainingSet' = SelectSeq(finalPoints', inTraining)
    /\ testingSet' = SelectSeq(finalPoints', inTesting)
    /\ stage' = stage \cup {"split"}
    /\ UNCHANGED << table, scenes, seedKeys, points, mosaic, predictorImage,
                    trainingData, testingData, results, bestNumberOfTrees,
                    finalClassifier, finalClassifiedImage, trainCalls, error >>

\* Lines 108-109.
Sample ==
    /\ {"split", "predictors"} \subseteq stage
    /\ "sample" \notin stage
    /\ error = "none"
    /\ trainingData' = sampleRegions(predictorImage, trainingSet)
    /\ testingData' = sampleRegions(predictorImage, testingSet)
    /\ stage' = stage \cup {"sample"}
    /\ UNCHANGED << table, scenes, seedKeys, points, finalPoints, mosaic,
                    predictorImage, trainingSet, testingSet, results,
                    bestNumberOfTrees, finalClassifier, finalClassifiedImage,
                    trainCalls, error >>

\* The body of the function of lines 117-133 for entry i of numTreesList.
\* The entries share nothing but trainingData and testingData, so the engine
\* may evaluate them in any order.  train() fails on an empty collection.
Evaluate(i) ==
    /\ "sample" \in stage
    /\ \A j \in Candidates : results[j].entry # i
    /\ error = "none"
    /\ IF sweepFeatures = {}
       THEN /\ error' = "No valid training data were found"
            /\ UNCHANGED << results, trainCalls >>
       ELSE /\ \E vote \in Votes(sweepFeatures) :
                 LET m == errorMatrix(vote, testingData)
                 IN  results' = [ results EXCEPT ![slotOf(i)] =
                                    [ done    |-> TRUE,
                                      entry   |-> i,
                                      trees   |-> numTreesList[i],
                                      correct |-> m.correct,
                                      total   |-> m.total ] ]
            /\ trainCalls' = trainCalls \cup
                   { [ call |-> "sweep", trees |-> numTreesList[i],
                       features |-> sweepFeatures ] }
            /\ error' = error
    /\ UNCHANGED << table, scenes, seedKeys, points, finalPoints, mosaic,
                    predictorImage, trainingSet, testingSet, trainingData,
                    testingData, bestNumberOfTrees, finalClassifier,
                    finalClassifiedImage, stage >>

\* Lines 139-140: the sort reads the accuracy of every entry.
SelectBest ==
    /\ "sample" \in stage
    /\ "select" \notin stage
    /\ error = "none"
    /\ \A i \in Candidates : results[i].done
    /\ bestNumberOfTrees' = bestOf(results)
    /\ stage' = stage \cup {"select"}
    /\ UNCHANGED << table, scenes, seedKeys, points, finalPoints, mosaic,
                    predictorImage, trainingSet, testingSet, trainingData,
                    testingData, results, finalClassifier, finalClassifiedImage,
                    trainCalls, error >>

\* Lines 146-150.
TrainFinal ==
    /\ "select" \in stage
    /\ "final" \notin stage
    /\ error = "none"
    /\ IF finalFeatures = {}
       THEN /\ error' = "No valid training data were found"
            /\ UNCHANGED << finalClassifier, trainCalls, stage >>
       ELSE /\ \E vote \in Votes(finalFeatures) :
                 finalClassifier' = [ trees    |-> finalTrees,
                                      features |-> finalFeatures,
                                      vote     |-> vote ]
            /\ trainCalls' = trainCalls \cup
                   { [ call |-> "final", trees |-> finalTrees,
                       features |-> finalFeatures ] }
            /\ stage' = stage \cup {"final"}
            /\ error' = error
    /\ UNCHANGED << table, scenes, seedKeys, points, finalPoints, mosaic,
                    predictorImage, trainingSet, testingSet, trainingData,
                    testingData, results, bestNumberOfTrees,
                    finalClassifiedImage >>

\* Line 153.
Classify ==
    /\ "final" \in stage
    /\ "classified" \notin stage
    /\ error = "none"
    /\ finalClassifiedImage' =
           [ p \in Pixels |-> classifyPixel(predictorImage, finalClassifier, p) ]
    /\ stage' = stage \cup {"classified"}
    /\ UNCHANGED << table, scenes, seedKeys, points, finalPoints, mosaic,
                    predictorImage, trainingSet, testingSet, trainingData,
                    testingData, results, bestNumberOfTrees, finalClassifier,
                    trainCalls, error >>

-----------------------------------------------------------------------------
(* The inputs *)

FlagSet == Range(FlagNames)
OnlyFlag(n) == [ f \in FlagSet |-> IF f = n THEN 1 ELSE 0 ]
NoFlag == [ f \in FlagSet |-> 0 ]
AllFlags == [ FlagSet -> {0, 1} ]
\* The tables of n rows whose columns are drawn from `rows'; a row's id is its
\* position.
Tables(n, rows) ==
    { [ i \in 1..n |-> [ id |-> i, lon |-> c[i].lon, lat |-> c[i].lat,
                         flags |-> c[i].flags ] ] :
        c \in [ 1..n -> rows ] }

\* Random keys in tenths: 0.0, 0.8 and 0.9.
KeyValues == { 0, 8, 9 }

PixelA == << 915, 255 >>
PixelB == << 925, 255 >>

\* Digital numbers of the six bands of a pixel.
Flat(dn) == [ b \in SRBands |-> dn ]
\* Reflectances 0.2034 (blue), 0.075 (red), 0.0753 (nir): the denominator of
\* EVI is 0.
ZeroEviDN ==
    [ b \in SRBands |-> CASE b = "SR_B2" -> 14668
                          [] b = "SR_B5" -> 10010
                          [] OTHER       -> 10000 ]
\* A red digital number below 7273: a negative reflectance.
NegRedDN == [ b \in SRBands |-> IF b = "SR_B4" THEN 5000 ELSE 10000 ]

NoData == [ data |-> FALSE, QA_PIXEL |-> 0, SR |-> Flat(0) ]
Cell(qa, sr) == [ data |-> TRUE, QA_PIXEL |-> qa, SR |-> sr ]

\* QA_PIXEL values: clear, dilated cloud (bit 1), cloud (bit 3), cloud shadow
\* (bit 4), snow (bit 5).
QAValues == { 0, 2, 8, 16, 32 }

InTile == << 133, 40 >>
OffTile == << 133, 39 >>
InWindow == << 2018, 12, 15 >>
AtWindowEnd == << 2019, 1, 1 >>

Scene(cc, tile, date, cellA, cellB) ==
    [ CLOUD_COVER |-> cc, WRS_PATH |-> tile[1], WRS_ROW |-> tile[2],
      date |-> date,
      px |-> [ p \in Pixels |-> IF p = PixelA THEN cellA ELSE cellB ] ]

InitDerived ==
    /\ points = << >>
    /\ finalPoints = << >>
    /\ mosaic = NoImage
    /\ predictorImage = NoImage
    /\ trainingSet = << >>
    /\ testingSet = << >>
    /\ trainingData = {}
    /\ testingData = {}
    /\ results = [ i \in Candidates |-> pending ]
    /\ bestNumberOfTrees = 0
    /\ finalClassifier = NoClassifier
    /\ finalClassifiedImage = NoImage
    /\ trainCalls = {}
    /\ error = "none"
    /\ stage = {}

\* The whole script: MaxRows labelled rows, rows 1, 3, ... on pixel A and rows
\* 2, 4, ... on pixel B, and at most one scene.
PipelineTables ==
    { t \in Tables(MaxRows, [ lon : {"91.5", "92.5"}, lat : {"25.5"},
                              flags : {OnlyFlag("Forest"), OnlyFlag("Urban"), NoFlag} ]) :
        \A i \in DOMAIN t : t[i].lon = IF i % 2 = 1 THEN "91.5" ELSE "92.5" }

PipelineCatalogs ==
    { << >>,
      << Scene(10, InTile, InWindow, Cell(0, Flat(10000)), NoData) >>,
      << Scene(10, InTile, InWindow, Cell(0, Flat(10000)), Cell(8, Flat(12000))) >>,
      << Scene(10, InTile, InWindow, Cell(0, ZeroEviDN), Cell(0, Flat(10000))) >>,
      << Scene(10, InTile, InWindow, Cell(0, NegRedDN), Cell(0, Flat(10000))) >> }

Init ==
    /\ table \in PipelineTables
    /\ seedKeys \in [ 1..MaxRows -> {8, 9} ]
    /\ scenes \in PipelineCatalogs
    /\ InitDerived

Next ==
    \/ PrepareLabels
    \/ BuildMosaic
    \/ BuildPredictors
    \/ Split
    \/ Sample
    \/ \E i \in Candidates : Evaluate(i)
    \/ SelectBest
    \/ TrainFinal
    \/ Classify

Spec == Init /\ [][Next]_vars


\* The label stage alone: one row with every combination of the eight flags.
InitLabel ==
    /\ table \in Tables(1, [ lon : {Null, "91.5", "92.5"}, lat : {Null, "25.5"},
                              flags : AllFlags ])
    /\ seedKeys \in [ 1..1 -> KeyValues ]
    /\ scenes = << >>
    /\ InitDerived

NextLabel == PrepareLabels \/ Split

SpecLabel == InitLabel /\ [][NextLabel]_vars

\* The label stage and the split over MaxRows rows, with and without lon, lat
\* and a flag.
InitSplit ==
    /\ table \in Tables(MaxRows,
                        { r \in [ lon : {Null, "91.5", "92.5"}, lat : {Null, "25.5"},
                                  flags : {OnlyFlag("Forest"), NoFlag} ] :
                            r.lat = Null => r.lon = "91.5" })
    /\ seedKeys \in [ 1..MaxRows -> {8, 9} ]
    /\ scenes = << >>
    /\ InitDerived

SpecSplit == InitSplit /\ [][NextLabel]_vars

\* The composite alone: up to MaxScenes scenes; scene i has digital number
\* 10000 + 1000 * i in every band, pixel A takes every QA value and pixel B is
\* clear.
SceneChoices(i) ==
    { Scene(cc, where[1], where[2], a, Cell(0, Flat(10000 + 1000 * i))) :
        cc \in {10, 40},
        where \in { <<InTile, InWindow>>, <<OffTile, InWindow>>,
                    <<InTile, AtWindowEnd>> },
        a \in {NoData} \cup { Cell(qa, Flat(10000 + 1000 * i)) : qa \in QAValues } }

InitComposite ==
    /\ table = << >>
    /\ seedKeys = << >>
    /\ \E n \in 0..MaxScenes :
          scenes \in { c \in [ 1..n -> UNION { SceneChoices(i) : i \in 1..n } ] :
                         \A i \in 1..n : c[i] \in SceneChoices(i) }
    /\ InitDerived

NextComposite == BuildMosaic \/ BuildPredictors

SpecComposite == InitComposite /\ [][NextComposite]_vars

-----------------------------------------------------------------------------
(* The properties *)

Ids(collection) == { collection[i].id : i \in DOMAIN collection }

\* The 0-based index of the first flag equal to 1 in the order of FlagNames,
\* and 99 when no flag is 1.
FirstFlag(flags) ==
    IF \E k \in DOMAIN FlagNames : flags[FlagNames[k]] = 1
    THEN (CHOOSE k \in DOMAIN FlagNames :
              /\ flags[FlagNames[k]] = 1
              /\ \A j \in 1..(k - 1) : flags[FlagNames[j]] = 0) - 1
    ELSE 99

\* C1: for every combination of the eight flags the class of a point is the
\* 0-based index of its first flag equal to 1, and 99 when all flags are 0; a
\* point is in finalPoints exactly when one of its flags is 1.
C1_PriorityChain ==
    "labels" \in stage =>
        /\ \A i \in DOMAIN points :
              points[i].target_class = FirstFlag(points[i].flags)
        /\ \A i \in DOMAIN points :
              (points[i].id \in Ids(finalPoints))
                  <=> (\E f \in FlagSet : points[i].flags[f] = 1)
        /\ \A i \in DOMAIN finalPoints : finalPoints[i].target_class \in 0..7

\* Wet Paddy and Urban both 1: the point is kept with class 2.
C1_Witness ==
    /\ "labels" \in stage
    /\ \E i \in DOMAIN finalPoints :
          /\ finalPoints[i].flags["Wet Paddy"] = 1
          /\ finalPoints[i].flags["Urban"] = 1
          /\ finalPoints[i].flags["Forest"] = 0
          /\ finalPoints[i].flags["Tree Based AG"] = 0
          /\ finalPoints[i].target_class = 2

\* The rows that have lon and lat and resolve to a class below 99.
Survivors ==
    { table[i].id : i \in { j \in DOMAIN table :
          /\ table[j].lon # Null
          /\ table[j].lat # Null
          /\ FirstFlag(table[j].flags) < 99 } }

\* C6: the training and the testing set are disjoint, together they hold
\* exactly the rows with lon, lat and a class below 99, each once; such a row
\* is in training iff its key is <= 0.8 and in testing iff its key is > 0.8.
C6_Partition ==
    "split" \in stage =>
        /\ Ids(trainingSet) \cap Ids(testingSet) = {}
        /\ Ids(trainingSet) \cup Ids(testingSet) = Survivors
        /\ Len(trainingSet) + Len(testingSet) = Cardinality(Survivors)
        /\ \A id \in Survivors :
              /\ (id \in Ids(trainingSet)) <=> (seedKeys[id] <= 8)
              /\ (id \in Ids(testingSet)) <=> (seedKeys[id] > 8)

\* A row with key 0.8 is in training, another is in testing, and a row is in
\* neither.
C6_Witness ==
    /\ "split" \in stage
    /\ \E i \in DOMAIN trainingSet : trainingSet[i].random = 8
    /\ testingSet # << >>
    /\ Survivors # { table[i].id : i \in DOMAIN table }

C4_SweepOrder ==
    /\ \A i \in Candidates :
          results[i].done => /\ results[i].entry = i
                             /\ results[i].trees = numTreesList[i]
    /\ "select" \in stage =>
          /\ DOMAIN results = DOMAIN numTreesList
          /\ \A i \in Candidates : results[i].done
          /\ [ i \in Candidates |-> results[i].trees ] = numTreesList

\* A later entry has been evaluated while the first has not.
C4_Witness ==
    /\ ~ results[1].done
    /\ \E i \in Candidates :
          i > 1 /\ results[i].done /\ results[i].trees = numTreesList[i]

\* C7: a pixel of the classified image holds a class in 0..7 where every band
\* of the predictor image is set and is unset elsewhere; 99 is never a class.
C7_RasterRange ==
    "classified" \in stage =>
        \A p \in Pixels :
            IF fullySet(predictorImage, p)
            THEN /\ finalClassifiedImage[p].set
                 /\ finalClassifiedImage[p].num \in 0..7
                 /\ finalClassifiedImage[p].den = 1
            ELSE ~ finalClassifiedImage[p].set

\* A classified image with a pixel that holds a class and a pixel that is
\* unset, from a table with a row that resolves to 99.
C7_Witness ==
    /\ "classified" \in stage
    /\ \E p \in Pixels : finalClassifiedImage[p].set
    /\ \E p \in Pixels : ~ finalClassifiedImage[p].set
    /\ \E i \in DOMAIN points : points[i].target_class = 99

\* C10: the final classifier exists only once every entry has been scored and
\* the best selected; it comes from a train() call of its own, has the selected
\* tree count and is trained on exactly the training examples; no call of
\* train(), of the sweep or final, gets a testing example.
C10_FinalRetrain ==
    /\ (\E c \in trainCalls : c.call = "final") <=> "final" \in stage
    /\ "final" \in stage =>
          /\ \A i \in Candidates : results[i].done
          /\ "select" \in stage
          /\ finalClassifier.trees = bestNumberOfTrees
          /\ \E i \in Candidates : results[i].trees = finalClassifier.trees
          /\ finalClassifier.features = trainingData
          /\ Cardinality(trainCalls) = Len(numTreesList) + 1
          /\ \A c \in trainCalls :
                c.call = "final" => /\ c.trees = bestNumberOfTrees
                                    /\ c.features = trainingData
    /\ \A c \in trainCalls :
          /\ c.features \cap testingData = {}
          /\ c.features = trainingData
    /\ \A e \in trainingData : e.id \in Ids(trainingSet)
    /\ \A e \in testingData : e.id \in Ids(testingSet) /\ e.id \notin Ids(trainingSet)

\* A final classifier with a tree count other than the first of the list,
\* while there are testing examples.
C10_Witness ==
    /\ "final" \in stage
    /\ testingData # {}
    /\ finalClassifier.trees # numTreesList[1]


\* Bit k of a QA_PIXEL value.
Bit(qa, k) == (qa \div (2 ^ k)) % 2

CloudFlagged(cell) ==
    cell.data /\ (Bit(cell.QA_PIXEL, 1) = 1 \/ Bit(cell.QA_PIXEL, 3) = 1
                    \/ Bit(cell.QA_PIXEL, 4) = 1)

Selected == SelectSeq(scenes, sceneSelected)

\* C2: a scene pixel with bit 1, 3 or 4 of QA_PIXEL set gives the mosaic no
\* reflectance value, also when its scene has the greatest quality_score.
C2_CompositeMasking ==
    "mosaic" \in stage =>
        \A p \in Pixels : \A k \in DOMAIN Selected :
            CloudFlagged(Selected[k].px[p]) =>
                ~ ( /\ bestIndex(preparedCollection(scenes), p) = k
                    /\ \E b \in SRBands : mosaic[p][b].set )

\* C8: the reflectance bands of a mosaic pixel are those of one scene, the
\* first of greatest quality_score among the scenes whose pixel has data and no
\* cloud flag; they are unset when there is no such scene.
C8_BestPixel ==
    "mosaic" \in stage =>
        \A p \in Pixels :
            LET eligible == { k \in DOMAIN Selected :
                                /\ Selected[k].px[p].data
                                /\ ~ CloudFlagged(Selected[k].px[p]) }
            IN  IF eligible = {}
                THEN \A b \in SRBands \cap DOMAIN mosaic[p] : ~ mosaic[p][b].set
                ELSE \E k \in eligible :
                        /\ \A j \in eligible :
                              \/ Selected[j].CLOUD_COVER > Selected[k].CLOUD_COVER
                              \/ /\ Selected[j].CLOUD_COVER = Selected[k].CLOUD_COVER
                                 /\ k <= j
                        /\ \A b \in SRBands :
                              mosaic[p][b] =
                                  Val(11 * Selected[k].px[p].SR[b] - 80000, 400000)

\* C5: when the sampled training set or the sampled testing set is empty, no
\* entry is trained or scored, no best tree count is selected and no final
\* classifier is trained.
C5_InsufficientData ==
    ("sample" \in stage /\ (trainingData = {} \/ testingData = {})) =>
        /\ \A i \in Candidates : ~ results[i].done
        /\ trainCalls = {}
        /\ "select" \notin stage
        /\ "final" \notin stage

\* A pixel at which the denominator of a derived index is 0.
ZeroDenominator(p) ==
    LET m == mosaicRenamedPixel(mosaic[p])
    IN  \/ m.nir.num + m.red.num = 0
        \/ m.nir.num + m.swir1.num = 0
        \/ 200000 + m.nir.num + m.red.num = 0
        \/ m.blue.num + m.green.num = 0
        \/ m.swir1.num = 0
        \/ 2 * m.nir.num + 12 * m.red.num - 15 * m.blue.num + 800000 = 0
        \/ 10 * m.nir.num + 24 * m.red.num + 4000000 = 0
        \/ m.green.num = 0

\* The points of a collection that the claim has sampled: those on a pixel
\* with all sixteen bands set, a derived index counting as unset where its
\* denominator is 0.
ClaimSampled(collection) ==
    { collection[i].id : i \in { j \in DOMAIN collection :
          /\ collection[j].geometry \in Pixels
          /\ fullySet(predictorImage, collection[j].geometry)
          /\ ~ ZeroDenominator(collection[j].geometry) } }

\* C9: sampling gives one example, with the point's class, per point on a
\* pixel with all sixteen bands set (a derived index being unset where its
\* denominator is 0) and none for any other point.
C9_SamplerSkipping ==
    "sample" \in stage =>
        /\ { e.id : e \in trainingData } = ClaimSampled(trainingSet)
        /\ { e.id : e \in testingData } = ClaimSampled(testingSet)
        /\ Cardinality(trainingData) = Cardinality(ClaimSampled(trainingSet))
        /\ Cardinality(testingData) = Cardinality(ClaimSampled(testingSet))
        /\ \A e \in trainingData \cup testingData :
              \E i \in DOMAIN finalPoints :
                  finalPoints[i].id = e.id
                      /\ finalPoints[i].target_class = e.target_class


\* Sampling with the band masks as the engine computes them: one example, with
\* the point's class, per point on a pixel with every predictor band set, and
\* none for any other point.
SamplingByBandMasks ==
    "sample" \in stage =>
        /\ { e.id : e \in trainingData } =
               { trainingSet[i].id : i \in { j \in DOMAIN trainingSet :
                     fullySet(predictorImage, trainingSet[j].geometry) } }
        /\ { e.id : e \in testingData } =
               { testingSet[i].id : i \in { j \in DOMAIN testingSet :
                     fullySet(predictorImage, testingSet[j].geometry) } }
        /\ Cardinality(trainingData) + Cardinality(testingData)
               = Cardinality({ e.id : e \in trainingData \cup testingData })
        /\ \A e \in trainingData \cup testingData :
              \E i \in DOMAIN finalPoints :
                  finalPoints[i].id = e.id
                      /\ finalPoints[i].target_class = e.target_class

=============================================================================
